---- MODULE Spec2Model ----
(***************************************************************************)
(* A model of package sieve (sieve.go): the bit-packed sieve of            *)
(* Eratosthenes and the queries answered from it.                          *)
(*                                                                         *)
(* The Sieve object is the three variables size, count and table.  Every   *)
(* exported function is an operator that follows the Go code statement by  *)
(* statement (loops are RECURSIVE operators carrying the loop variables),  *)
(* and an action that applies it to an argument and records the result.    *)
(***************************************************************************)
EXTENDS Integers, Sequences, FiniteSets, TLC

VARIABLES
    pc,         \* the caller: "start" before the constructor has returned,
                \* "built" between calls, "returned" when a query has returned
    newArg,     \* the argument the constructor was called with
    size,       \* Sieve.size
    count,      \* Sieve.count
    table,      \* Sieve.table: a function 0..len-1 -> word
    op,         \* the name of the most recent query call
    arg,        \* its argument
    ret,        \* its return value
    countCalls, \* how many Count() calls have returned (saturates at 2)
    firstCount, \* the value the first Count() call returned
    tpc,        \* per thread: position inside a concurrent Count() call
    ti,         \* per thread: the loop variable i of Count()
    ttmp,       \* per thread: the value read by sieve.count++ before its write
    tret        \* per thread: the value returned by Count()

vars == <<pc, newArg, size, count, table, op, arg, ret, countCalls, firstCount,
          tpc, ti, ttmp, tret>>

(***************************************************************************)
(* Bounds of the model.                                                    *)
(***************************************************************************)
\* sieves New(0) .. New(MaxSize) are built
MaxSize == 18
\* queries take arguments 0 .. size*size + Beyond
Beyond == 2
\* NewFactor(2) .. NewFactor(MaxTarget) are built
MaxTarget == 40
\* sieves New(0) .. New(MaxRaceSize) are shared by the concurrent callers
MaxRaceSize == 9
\* number of threads calling Count() concurrently
NumThreads == 2

(***************************************************************************)
(* Machine arithmetic on non-negative integers.                            *)
(***************************************************************************)
Shr(x, k) == x \div (2 ^ k)

Shl(x, k) == x * (2 ^ k)

RECURSIVE And(_, _)
And(a, b) ==
    IF a = 0 \/ b = 0 THEN 0
    ELSE (IF a % 2 = 1 /\ b % 2 = 1 THEN 1 ELSE 0) + 2 * And(a \div 2, b \div 2)

RECURSIVE Or(_, _)
Or(a, b) ==
    IF a = 0 THEN b
    ELSE IF b = 0 THEN a
    ELSE (IF a % 2 = 1 \/ b % 2 = 1 THEN 1 ELSE 0) + 2 * Or(a \div 2, b \div 2)

wordBitsLog2 == 3

wordBits == Shl(1, wordBitsLog2)

wordMask == wordBits - 1

\* conversion to type word (uint8) and to byte
word(x) == x % 256

byte(x) == x % 256

(***************************************************************************)
(* bit and setBit: one bit per odd number, packed into words.              *)
(***************************************************************************)
bit(tbl, index) ==
    And(byte(Shr(tbl[Shr(index, 1 + wordBitsLog2)],
                 byte(And(Shr(index, 1), wordMask)))), 1)

setBit(tbl, index) ==
    [tbl EXCEPT ![Shr(index, 1 + wordBitsLog2)] =
        Or(@, word(Shl(1, And(Shr(index, 1), wordMask))))]

(***************************************************************************)
(* New(size): allocate the table and strike the odd multiples of every     *)
(* odd prime i with i*i <= size.                                            *)
(***************************************************************************)
makeTable(sz) == [w \in 0 .. (1 + (sz + wordBits - 1) \div wordBits) - 1 |-> 0]

RECURSIVE NewStrike(_, _, _, _)
NewStrike(sz, tbl, i, j) ==
    IF j <= sz THEN NewStrike(sz, setBit(tbl, j), i, j + i + i) ELSE tbl

\* NewLoop with a fault, to test the properties: the outer loop stops at i*i < size
RECURSIVE NewLoopFromSquare(_, _, _)
NewLoopFromSquare(sz, tbl, i) ==
    IF i * i < sz
    THEN NewLoopFromSquare(sz,
             IF bit(tbl, i) = 0 THEN NewStrike(sz, tbl, i, 3 * i) ELSE tbl,
             i + 2)
    ELSE tbl

RECURSIVE NewLoop(_, _, _)
NewLoop(sz, tbl, i) ==
    IF i * i <= sz
    THEN NewLoop(sz,
             IF bit(tbl, i) = 0 THEN NewStrike(sz, tbl, i, 3 * i) ELSE tbl,
             i + 2)
    ELSE tbl

New(sz) == [size |-> sz, count |-> 0, table |-> NewLoop(sz, makeTable(sz), 3)]

\* the receiver of a method call
Self == [size |-> size, count |-> count, table |-> table]

(***************************************************************************)
(* Count(): the lazily cached number of primes in the sieve.  The operator *)
(* gives the value of sieve.count when the call returns, which is also the *)
(* value returned.                                                         *)
(***************************************************************************)
RECURSIVE CountLoop(_, _, _)
CountLoop(s, c, i) ==
    IF i <= s.size
    THEN CountLoop(s, IF bit(s.table, i) = 0 THEN c + 1 ELSE c, i + 2)
    ELSE c

\* Count with a fault, to test the properties: the prime 2 is not counted
CountForgetsTwo(s) ==
    IF s.count = 0 THEN CountLoop(s, s.count, 3) ELSE s.count

\* Count with a fault, to test the properties: the cache is not consulted and
\* every call adds its scan to the count
CountScansAgain(s) ==
    CountLoop(s, IF s.size >= 2 THEN s.count + 1 ELSE s.count, 3)

Count(s) ==
    IF s.count = 0
    THEN CountLoop(s, IF s.size >= 2 THEN 1 ELSE s.count, 3)
    ELSE s.count

(***************************************************************************)
(* Prime(n)                                                                *)
(***************************************************************************)
RECURSIVE PrimeRoot(_, _)
PrimeRoot(root, n) ==
    IF (root + 1) * (root + 1) <= n THEN PrimeRoot(root + 1, n) ELSE root

\* PrimeTrial with a fault, to test the properties: the divisor root is not tried
RECURSIVE PrimeTrialStopsEarly(_, _, _, _)
PrimeTrialStopsEarly(s, n, root, d) ==
    IF d < root
    THEN IF bit(s.table, d) = 0 /\ n % d = 0
         THEN FALSE
         ELSE PrimeTrialStopsEarly(s, n, root, d + 2)
    ELSE TRUE

RECURSIVE PrimeTrial(_, _, _, _)
PrimeTrial(s, n, root, d) ==
    IF d <= root
    THEN IF bit(s.table, d) = 0 /\ n % d = 0
         THEN FALSE
         ELSE PrimeTrial(s, n, root, d + 2)
    ELSE TRUE

Prime(s, n) ==
    IF n < 2 THEN FALSE
    ELSE IF n = 2 THEN TRUE
    ELSE IF And(n, 1) = 0 THEN FALSE
    ELSE IF n <= s.size
    THEN n = 2 \/ (n > 2 /\ n <= s.size /\ And(n, 1) = 1 /\ bit(s.table, n) = 0)
    ELSE IF n <= s.size * s.size
    THEN LET root == PrimeRoot(1, n)
         IN  IF root * root = n THEN FALSE ELSE PrimeTrial(s, n, root, 3)
    ELSE FALSE

(***************************************************************************)
(* String(): the primes of the sieve in decimal, separated by one space.   *)
(* A string is a sequence of one-character strings.                        *)
(***************************************************************************)
DigitChar(d) == <<"0", "1", "2", "3", "4", "5", "6", "7", "8", "9">>[d + 1]

\* fmt.Sprintf("%d", n) for n >= 0
RECURSIVE SprintfD(_)
SprintfD(n) ==
    IF n < 10 THEN <<DigitChar(n)>> ELSE SprintfD(n \div 10) \o <<DigitChar(n % 10)>>

RECURSIVE StringLoop(_, _, _, _)
StringLoop(s, str, first, i) ==
    IF i <= s.size
    THEN IF bit(s.table, i) = 0
         THEN StringLoop(s, (IF ~first THEN str \o <<" ">> ELSE str) \o SprintfD(i),
                         FALSE, i + 2)
         ELSE StringLoop(s, str, first, i + 2)
    ELSE str

String(s) ==
    IF s.size >= 2
    THEN StringLoop(s, <<"2">>, FALSE, 3)
    ELSE StringLoop(s, <<>>, TRUE, 3)

(***************************************************************************)
(* Factor(n): the prime factors of n with multiplicity.  The loops carry   *)
(* the pair (result, n) of the Go code.                                    *)
(***************************************************************************)
RECURSIVE FactorTwos(_, _)
FactorTwos(result, n) ==
    IF n > 1 /\ n % 2 = 0
    THEN FactorTwos(Append(result, 2), Shr(n, 1))
    ELSE [result |-> result, n |-> n]

RECURSIVE FactorDivide(_, _, _)
FactorDivide(result, n, d) ==
    IF n > 1 /\ n % d = 0
    THEN FactorDivide(Append(result, d), n \div d, d)
    ELSE [result |-> result, n |-> n]

RECURSIVE FactorLoop(_, _, _)
FactorLoop(s, st, d) ==
    IF d < s.size /\ d * d <= st.n
    THEN FactorLoop(s,
             IF Prime(s, d) THEN FactorDivide(st.result, st.n, d) ELSE st,
             d + 2)
    ELSE st

FactorRest(st) == IF st.n > 1 THEN Append(st.result, st.n) ELSE st.result

Factor(s, n) ==
    IF s.size * s.size < n THEN <<>>
    ELSE IF n <= 3 THEN <<n>>
    ELSE FactorRest(FactorLoop(s, FactorTwos(<<>>, n), 3))

(***************************************************************************)
(* FactorUnique(n): the distinct prime factors of n, each with its count.  *)
(***************************************************************************)
Unique(f, c) == [Factor |-> f, Count |-> c]

\* the inner loops: divide n by d while it divides, counting
RECURSIVE UniqueDivide(_, _, _)
UniqueDivide(n, d, cnt) ==
    IF n > 1 /\ n % d = 0
    THEN UniqueDivide(n \div d, d, cnt + 1)
    ELSE [n |-> n, count |-> cnt]

RECURSIVE UniqueTwos(_, _)
UniqueTwos(n, cnt) ==
    IF n > 1 /\ n % 2 = 0
    THEN UniqueTwos(Shr(n, 1), cnt + 1)
    ELSE [n |-> n, count |-> cnt]

\* FactorUniqueStep with a fault, to test the properties: d is divided out once
FactorUniqueStepOnce(st, d) ==
    IF st.n > 1 /\ st.n % d = 0
    THEN [result |-> Append(st.result, Unique(d, 1)), n |-> st.n \div d]
    ELSE st

FactorUniqueStep(st, d) ==
    IF st.n > 1 /\ st.n % d = 0
    THEN LET r == UniqueDivide(st.n, d, 0)
         IN  [result |-> Append(st.result, Unique(d, r.count)), n |-> r.n]
    ELSE st

RECURSIVE FactorUniqueLoop(_, _, _)
FactorUniqueLoop(s, st, d) ==
    IF d < s.size /\ d * d <= st.n
    THEN FactorUniqueLoop(s, IF Prime(s, d) THEN FactorUniqueStep(st, d) ELSE st, d + 2)
    ELSE st

FactorUniqueTwos(n) ==
    IF n > 1 /\ n % 2 = 0
    THEN LET r == UniqueTwos(n, 0)
         IN  [result |-> <<Unique(2, r.count)>>, n |-> r.n]
    ELSE [result |-> <<>>, n |-> n]

FactorUniqueRest(st) ==
    IF st.n > 1 THEN Append(st.result, Unique(st.n, 1)) ELSE st.result

FactorUnique(s, n) ==
    IF s.size * s.size < n THEN <<>>
    ELSE IF n <= 3 THEN <<Unique(n, 1)>>
    ELSE FactorUniqueRest(FactorUniqueLoop(s, FactorUniqueTwos(n), 3))

(***************************************************************************)
(* DivisorCount(n): the product of (multiplicity + 1) over the factors.    *)
(* The loops carry the pair (m, n).                                        *)
(***************************************************************************)
DivisorCountTwos(n) ==
    IF n > 1 /\ n % 2 = 0
    THEN LET r == UniqueTwos(n, 0)
         IN  [m |-> 1 * (r.count + 1), n |-> r.n]
    ELSE [m |-> 1, n |-> n]

DivisorCountStep(st, d) ==
    IF st.n > 1 /\ st.n % d = 0
    THEN LET r == UniqueDivide(st.n, d, 0)
         IN  [m |-> st.m * (r.count + 1), n |-> r.n]
    ELSE st

RECURSIVE DivisorCountLoop(_, _, _)
DivisorCountLoop(s, st, d) ==
    IF d < s.size /\ d * d <= st.n
    THEN DivisorCountLoop(s, IF Prime(s, d) THEN DivisorCountStep(st, d) ELSE st, d + 2)
    ELSE st

DivisorCountRest(st) == IF st.n > 1 THEN st.m * (1 + 1) ELSE st.m

DivisorCount(s, n) ==
    IF s.size * s.size < n THEN 0
    ELSE IF n = 1 THEN 1
    ELSE DivisorCountRest(DivisorCountLoop(s, DivisorCountTwos(n), 3))

(***************************************************************************)
(* SquareFree(n)                                                           *)
(***************************************************************************)
RECURSIVE SquareFreeLoop(_, _)
SquareFreeLoop(f, i) ==
    IF i < Len(f) - 1
    THEN IF f[i + 1] = f[i + 2] THEN FALSE ELSE SquareFreeLoop(f, i + 1)
    ELSE TRUE

SquareFree(s, n) ==
    IF s.size * s.size < n THEN FALSE
    ELSE SquareFreeLoop(Factor(s, n), 0)

(***************************************************************************)
(* NthPrime(n)                                                             *)
(***************************************************************************)
RECURSIVE NthPrimeLoop(_, _, _, _)
NthPrimeLoop(s, n, value, cnt) ==
    IF value <= s.size
    THEN IF Prime(s, value)
         THEN IF cnt + 1 = n THEN value ELSE NthPrimeLoop(s, n, value + 2, cnt + 1)
         ELSE NthPrimeLoop(s, n, value + 2, cnt)
    ELSE 0

NthPrime(s, n) == IF n = 1 THEN 2 ELSE NthPrimeLoop(s, n, 3, 1)

(***************************************************************************)
(* NewFactor(n) and Size()                                                 *)
(***************************************************************************)
\* math.Ceil(math.Sqrt(float64(n))): float64 holds every n < 2^52 and every
\* root below 2^26 exactly, so in that range this is the least r with r*r >= n
RECURSIVE CeilSqrt(_, _)
CeilSqrt(n, r) == IF r * r >= n THEN r ELSE CeilSqrt(n, r + 1)

NewFactor(n) == New(CeilSqrt(n, 0) + 32)

Size(s) == s.size

(***************************************************************************)
(* The program: a constructor call, then any sequence of query calls.      *)
(***************************************************************************)
Threads == 1 .. NumThreads

Init ==
    /\ pc = "start"
    /\ newArg = 0
    /\ size = 0
    /\ count = 0
    /\ table = <<>>
    /\ op = "none"
    /\ arg = 0
    /\ ret = 0
    /\ countCalls = 0
    /\ firstCount = 0
    /\ tpc = [t \in Threads |-> "idle"]
    /\ ti = [t \in Threads |-> 0]
    /\ ttmp = [t \in Threads |-> 0]
    /\ tret = [t \in Threads |-> 0]

threadVars == <<tpc, ti, ttmp, tret>>

callVars == <<op, arg, ret, countCalls, firstCount>>

\* the constructor returned sieve s
Built(n, s) ==
    /\ pc' = "built"
    /\ newArg' = n
    /\ size' = s.size
    /\ count' = s.count
    /\ table' = s.table
    /\ UNCHANGED <<callVars, threadVars>>

DoNew ==
    /\ pc = "start"
    /\ \E sz \in 0 .. MaxSize : Built(sz, New(sz))

DoNewFactor ==
    /\ pc = "start"
    /\ \E n \in 2 .. MaxTarget : Built(n, NewFactor(n))

\* the arguments the queries are called with
Args == 0 .. (size * size + Beyond)

\* a query other than Count() returned r: it writes no field of the sieve
Returned(name, n, r) ==
    /\ pc' = "returned"
    /\ op' = name
    /\ arg' = n
    /\ ret' = r
    /\ UNCHANGED <<newArg, size, count, table, countCalls, firstCount, threadVars>>

\* the caller drops the result and goes on to its next call
Continue ==
    /\ pc = "returned"
    /\ pc' = "built"
    /\ op' = "none"
    /\ arg' = 0
    /\ ret' = 0
    /\ UNCHANGED <<newArg, size, count, table, countCalls, firstCount, threadVars>>

DoSize ==
    /\ pc = "built"
    /\ Returned("Size", 0, Size(Self))

DoCount ==
    /\ pc = "built"
    /\ count' = Count(Self)
    /\ pc' = "returned"
    /\ op' = "Count"
    /\ arg' = 0
    /\ ret' = count'
    /\ countCalls' = IF countCalls < 2 THEN countCalls + 1 ELSE countCalls
    /\ firstCount' = IF countCalls = 0 THEN count' ELSE firstCount
    /\ UNCHANGED <<newArg, size, table, threadVars>>

DoPrime ==
    /\ pc = "built"
    /\ \E n \in Args : Returned("Prime", n, Prime(Self, n))

DoString ==
    /\ pc = "built"
    /\ Returned("String", 0, String(Self))

DoFactor ==
    /\ pc = "built"
    /\ \E n \in Args : Returned("Factor", n, Factor(Self, n))

DoFactorUnique ==
    /\ pc = "built"
    /\ \E n \in Args : Returned("FactorUnique", n, FactorUnique(Self, n))

DoDivisorCount ==
    /\ pc = "built"
    /\ \E n \in Args : Returned("DivisorCount", n, DivisorCount(Self, n))

DoSquareFree ==
    /\ pc = "built"
    /\ \E n \in Args : Returned("SquareFree", n, SquareFree(Self, n))

DoNthPrime ==
    /\ pc = "built"
    /\ \E n \in Args : Returned("NthPrime", n, NthPrime(Self, n))

Next ==
    \/ DoNew
    \/ DoSize
    \/ DoCount
    \/ DoPrime
    \/ DoString
    \/ DoFactor
    \/ DoFactorUnique
    \/ DoDivisorCount
    \/ DoSquareFree
    \/ DoNthPrime
    \/ Continue

Spec == Init /\ [][Next]_vars

\* a sieve built by NewFactor, then asked for its size and for factors
NextFactor ==
    \/ DoNewFactor
    \/ DoSize
    \/ DoFactor
    \/ Continue

SpecFactor == Init /\ [][NextFactor]_vars

(***************************************************************************)
(* Count() called by several threads on the same sieve, one read or write  *)
(* of sieve.count per step.  Go gives no ordering between the threads'     *)
(* accesses, so every interleaving is a behaviour.                         *)
(***************************************************************************)
sieveVars == <<pc, newArg, size, table>>

\* line 96: if sieve.count == 0
CountTest(t) ==
    /\ pc = "built"
    /\ tpc[t] = "idle"
    /\ tpc' = [tpc EXCEPT ![t] = IF count = 0 THEN "first" ELSE "return"]
    /\ UNCHANGED <<sieveVars, count, callVars, ti, ttmp, tret>>

\* lines 97-99: sieve.count = 1 when size >= 2; line 100: i := 3
CountFirst(t) ==
    /\ tpc[t] = "first"
    /\ count' = IF size >= 2 THEN 1 ELSE count
    /\ ti' = [ti EXCEPT ![t] = 3]
    /\ tpc' = [tpc EXCEPT ![t] = "loop"]
    /\ UNCHANGED <<sieveVars, callVars, ttmp, tret>>

\* lines 100-101: the loop test and the bit test
CountScan(t) ==
    /\ tpc[t] = "loop"
    /\ IF ti[t] <= size
       THEN IF bit(table, ti[t]) = 0
            THEN /\ tpc' = [tpc EXCEPT ![t] = "read"]
                 /\ ti' = ti
            ELSE /\ tpc' = tpc
                 /\ ti' = [ti EXCEPT ![t] = @ + 2]
       ELSE /\ tpc' = [tpc EXCEPT ![t] = "return"]
            /\ ti' = ti
    /\ UNCHANGED <<sieveVars, count, callVars, ttmp, tret>>

\* line 102, sieve.count++: the read
CountRead(t) ==
    /\ tpc[t] = "read"
    /\ ttmp' = [ttmp EXCEPT ![t] = count]
    /\ tpc' = [tpc EXCEPT ![t] = "write"]
    /\ UNCHANGED <<sieveVars, count, callVars, ti, tret>>

\* line 102, sieve.count++: the write; then i += 2
CountWrite(t) ==
    /\ tpc[t] = "write"
    /\ count' = ttmp[t] + 1
    /\ ti' = [ti EXCEPT ![t] = @ + 2]
    /\ tpc' = [tpc EXCEPT ![t] = "loop"]
    /\ UNCHANGED <<sieveVars, callVars, ttmp, tret>>

\* line 106: return sieve.count
CountReturn(t) ==
    /\ tpc[t] = "return"
    /\ tret' = [tret EXCEPT ![t] = count]
    /\ tpc' = [tpc EXCEPT ![t] = "done"]
    /\ UNCHANGED <<sieveVars, count, callVars, ti, ttmp>>

DoNewShared ==
    /\ pc = "start"
    /\ \E sz \in 0 .. MaxRaceSize : Built(sz, New(sz))

NextRace ==
    \/ DoNewShared
    \/ \E t \in Threads : CountTest(t)
    \/ \E t \in Threads : CountFirst(t)
    \/ \E t \in Threads : CountScan(t)
    \/ \E t \in Threads : CountRead(t)
    \/ \E t \in Threads : CountWrite(t)
    \/ \E t \in Threads : CountReturn(t)

SpecRace == Init /\ [][NextRace]_vars

(***************************************************************************)
(* Reference definitions the properties are stated with.  None of them     *)
(* reads the table.                                                        *)
(***************************************************************************)
\* trial division by all integers in [2, sqrt(n)]
IsPrime(n) == n >= 2 /\ \A d \in 2 .. n : d * d <= n => n % d # 0

\* the prime-counting function
Pi(n) == Cardinality({k \in 2 .. n : IsPrime(k)})

\* the primes in k .. n in ascending order
RECURSIVE PrimesFrom(_, _)
PrimesFrom(k, n) ==
    IF k > n THEN <<>>
    ELSE IF IsPrime(k) THEN <<k>> \o PrimesFrom(k + 1, n)
    ELSE PrimesFrom(k + 1, n)

PrimesUpTo(n) == PrimesFrom(2, n)

RECURSIVE Product(_)
Product(seq) == IF seq = <<>> THEN 1 ELSE Head(seq) * Product(Tail(seq))

NonDecreasing(seq) == \A i \in 1 .. Len(seq) - 1 : seq[i] <= seq[i + 1]

IsFactorization(seq, n) ==
    /\ NonDecreasing(seq)
    /\ \A i \in 1 .. Len(seq) : IsPrime(seq[i])
    /\ Product(seq) = n

\* the decimal numbers of a string of digits and single spaces
DigitValue(c) == CHOOSE d \in 0 .. 9 : DigitChar(d) = c

RECURSIVE ParseInts(_, _, _)
ParseInts(str, cur, acc) ==
    IF str = <<>> THEN (IF cur = -1 THEN acc ELSE Append(acc, cur))
    ELSE IF Head(str) = " "
    THEN ParseInts(Tail(str), -1, Append(acc, cur))
    ELSE ParseInts(Tail(str), (IF cur = -1 THEN 0 ELSE 10 * cur) + DigitValue(Head(str)), acc)

\* k copies of p
RECURSIVE Copies(_, _)
Copies(p, k) == IF k <= 0 THEN <<>> ELSE <<p>> \o Copies(p, k - 1)

\* a sequence of (Factor, Count) pairs written out with multiplicity
RECURSIVE Expand(_)
Expand(us) ==
    IF us = <<>> THEN <<>>
    ELSE Copies(Head(us).Factor, Head(us).Count) \o Expand(Tail(us))

(***************************************************************************)
(* C1.  When New(size) has returned, for every odd k in 3..size the table  *)
(* bit of k is 1 exactly when k is composite, and String() lists exactly   *)
(* the primes <= size in ascending order.                                  *)
(***************************************************************************)
C1_TableMarksComposites ==
    pc # "start" =>
        /\ \A k \in 3 .. size : k % 2 = 1 => (bit(table, k) = 1 <=> ~IsPrime(k))
        /\ op = "String" => ParseInts(ret, -1, <<>>) = PrimesUpTo(size)

\* a sieve whose table uses its second word, listed by String()
C1_Witness ==
    /\ op = "String"
    /\ size >= 17
    /\ bit(table, 15) = 1
    /\ bit(table, 17) = 0
    /\ Len(ret) > 10

(***************************************************************************)
(* C2.  For 0 <= n <= size*size, Prime(n) is true exactly when n is prime. *)
(***************************************************************************)
C2_PrimeDecides ==
    (op = "Prime" /\ arg <= size * size) => (ret = IsPrime(arg))

\* a prime above the sieve's size, found by trial division
C2_Witness ==
    /\ op = "Prime"
    /\ arg > size
    /\ arg <= size * size
    /\ arg > 200
    /\ ret = TRUE

(***************************************************************************)
(* C3.  For 2 <= n <= limit*limit, Factor(n) is non-decreasing, all of its *)
(* elements are prime, and their product is n.                             *)
(***************************************************************************)
C3_FactorIsFactorization ==
    (op = "Factor" /\ 2 <= arg /\ arg <= size * size) => IsFactorization(ret, arg)

(***************************************************************************)
(* C4.  Count() returns pi(size), and a second call returns what the first *)
(* call returned.                                                          *)
(***************************************************************************)
C4_CountIsPi ==
    op = "Count" =>
        /\ ret = Pi(size)
        /\ countCalls = 2 => ret = firstCount

\* a second call on a sieve that holds primes: the cached path
C4_Witness ==
    /\ op = "Count"
    /\ countCalls = 2
    /\ size >= 16
    /\ ret > 0

(***************************************************************************)
(* C5.  For 1 <= n <= limit*limit, DivisorCount(n) is the number of d in   *)
(* 1..n that divide n.                                                     *)
(***************************************************************************)
C5_DivisorCountCounts ==
    (op = "DivisorCount" /\ 1 <= arg /\ arg <= size * size) =>
        ret = Cardinality({d \in 1 .. arg : arg % d = 0})

(***************************************************************************)
(* C6.  For 1 <= n <= limit*limit, SquareFree(n) is true exactly when no   *)
(* prime p has p*p dividing n.                                             *)
(***************************************************************************)
C6_SquareFreeDecides ==
    (op = "SquareFree" /\ 1 <= arg /\ arg <= size * size) =>
        (ret <=> ~\E p \in 2 .. arg : IsPrime(p) /\ arg % (p * p) = 0)

(***************************************************************************)
(* C7.  For n >= 1, NthPrime(n) is the n-th smallest prime when the sieve  *)
(* holds at least n primes, and 0 when it holds fewer.                     *)
(***************************************************************************)
C7_NthPrime ==
    (op = "NthPrime" /\ arg >= 1) =>
        ret = IF arg <= Pi(size) THEN PrimesUpTo(size)[arg] ELSE 0

NewFactorFactorsUpToTarget ==
    /\ pc # "start" =>
          /\ (Size(Self) - 32) * (Size(Self) - 32) >= newArg
          /\ (Size(Self) - 33) * (Size(Self) - 33) < newArg
    /\ (op = "Factor" /\ 2 <= arg /\ arg <= newArg) =>
          ret # <<>> /\ IsFactorization(ret, arg)

(***************************************************************************)
(* C10.  When several threads call Count() on the same built sieve, every  *)
(* call returns pi(size), and once all have returned the cached count is   *)
(* pi(size).                                                               *)
(***************************************************************************)
C10_ConcurrentCount ==
    /\ \A t \in Threads : tpc[t] = "done" => tret[t] = Pi(size)
    /\ (\A t \in Threads : tpc[t] = "done") => count = Pi(size)

(***************************************************************************)
(* C11.  For n > limit*limit every query returns its out-of-range value:   *)
(* Prime(n) is false, Factor(n) and FactorUnique(n) are empty,             *)
(* DivisorCount(n) is 0 and SquareFree(n) is false.                        *)
(***************************************************************************)
C11_OutOfRange ==
    (pc = "returned" /\ arg > size * size) =>
        /\ op = "Prime" => ret = FALSE
        /\ op = "Factor" => ret = <<>>
        /\ op = "FactorUnique" => ret = <<>>
        /\ op = "DivisorCount" => ret = 0
        /\ op = "SquareFree" => ret = FALSE

(***************************************************************************)
(* C12.  After New has returned, no query call changes the sieve's size or *)
(* its table; the count cache is changed by Count() alone, and once it is  *)
(* not zero no call changes it.                                            *)
(***************************************************************************)
C12_QueriesFrame ==
    [][pc # "start" =>
          /\ size' = size
          /\ table' = table
          /\ count' # count => op' = "Count"
          /\ count # 0 => count' = count]_vars

\* another query has returned after Count() filled the cache
C12_Witness ==
    /\ pc = "returned"
    /\ op = "NthPrime"
    /\ countCalls >= 1
    /\ count = firstCount
    /\ count > 4

====
